---- MODULE Spec2Model ----
(***************************************************************************)
(* Model of the Pomodoro interval timer (src/src/timer.rs).                *)
(*                                                                         *)
(* The timer is a record with the fields of struct PomodoroTimer.  Every   *)
(* method is an operator taking the timer and the value that               *)
(* Instant::now() returns during the call.  Instants and Durations are     *)
(* natural numbers of clock units; Option<Instant> is a sequence of        *)
(* length 0 (None) or 1 (Some).                                            *)
(*                                                                         *)
(* The specifications share the state:                                     *)
(*   Spec      any caller: every method of the timer from every state,     *)
(*             interleaved with clock advances;                            *)
(*   SpecDb    the session store of src/src/db.rs under any sequence of    *)
(*             initialize() and save_session() calls;                      *)
(*   SpecLoop  the driving loop of run_pomodoro_timer (src/src/main.rs),   *)
(*             which owns the timer and the store.  A notification may     *)
(*             take time, and a notification or a save_session() call may  *)
(*             fail, which ends the loop with the error; terminal calls    *)
(*             are taken to succeed.                                       *)
(*   SpecLoopFair  SpecLoop with the progress of the loop and the clock.   *)
(***************************************************************************)
EXTENDS Naturals, Sequences, FiniteSets

\* ---- bounds -------------------------------------------------------------
\* largest configured duration tried for work_duration / break_duration
MaxDur == 2
\* last instant of the clock
MaxTime == 5
\* most rows the sessions table is filled with
MaxRows == 2
\* largest timestamp passed to save_session when the store is driven alone
MaxStamp == 1
\* largest completed_pomodoros value
MaxPomodoros == 2
\* largest single clock advance (polling is irregular: 1..MaxStep)
MaxStep == 2

\* ---- types of timer.rs --------------------------------------------------
TimerState == {"Running", "Paused", "Stopped"}

TimerType == {"Work", "Break"}

None == << >>

Some(v) == << v >>

\* Instant::duration_since: saturates to zero when `earlier` is later
duration_since(later, earlier) == IF later >= earlier THEN later - earlier ELSE 0

\* ---- PomodoroTimer -------------------------------------------------------
\* variant of new: the timer is created already Running
new_Running(work_duration, break_duration) ==
    [ work_duration        |-> work_duration,
      break_duration       |-> break_duration,
      start_time           |-> None,
      pause_time           |-> None,
      elapsed_before_pause |-> 0,
      timer_type           |-> "Work",
      state                |-> "Running" ]

new(work_duration, break_duration) ==
    [ work_duration        |-> work_duration,
      break_duration       |-> break_duration,
      start_time           |-> None,
      pause_time           |-> None,
      elapsed_before_pause |-> 0,
      timer_type           |-> "Work",
      state                |-> "Stopped" ]

\* variant of start: start_time is not set
start_NoStartTime(self, t) ==
    [self EXCEPT !.elapsed_before_pause = 0,
                 !.state = "Running"]

start(self, t) ==
    [self EXCEPT !.start_time = Some(t),
                 !.elapsed_before_pause = 0,
                 !.state = "Running"]

\* variant of pause: the state test is missing
pause_Unguarded(self, t) ==
    [self EXCEPT !.pause_time = Some(t), !.state = "Paused"]

pause(self, t) ==
    IF self.state = "Running"
    THEN [self EXCEPT !.pause_time = Some(t), !.state = "Paused"]
    ELSE self

\* variant of resume: the finished interval is not folded into the total
resume_NoFold(self, t) ==
    IF self.state = "Paused"
    THEN IF self.start_time # None /\ self.pause_time # None
         THEN [self EXCEPT !.start_time = Some(t),
                           !.pause_time = None,
                           !.state = "Running"]
         ELSE [self EXCEPT !.state = "Running"]
    ELSE self

\* variant of resume: start_time is not moved to the resume instant
resume_KeepsStart(self, t) ==
    IF self.state = "Paused"
    THEN IF self.start_time # None /\ self.pause_time # None
         THEN [self EXCEPT
                 !.elapsed_before_pause =
                     @ + duration_since(self.pause_time[1], self.start_time[1]),
                 !.pause_time = None,
                 !.state = "Running"]
         ELSE [self EXCEPT !.state = "Running"]
    ELSE self

resume(self, t) ==
    IF self.state = "Paused"
    THEN IF self.start_time # None /\ self.pause_time # None
         THEN [self EXCEPT
                 !.elapsed_before_pause =
                     @ + duration_since(self.pause_time[1], self.start_time[1]),
                 !.start_time = Some(t),
                 !.pause_time = None,
                 !.state = "Running"]
         ELSE [self EXCEPT !.state = "Running"]
    ELSE self

\* variant of reset: the run state is left as it was
reset_KeepsState(self, t) ==
    [self EXCEPT !.start_time = Some(t),
                 !.pause_time = None,
                 !.elapsed_before_pause = 0]

\* variant of reset: the timer is stopped
reset_Stops(self, t) ==
    [self EXCEPT !.start_time = Some(t),
                 !.pause_time = None,
                 !.elapsed_before_pause = 0,
                 !.state = "Stopped"]

\* variant of reset: the banked time is kept
reset_KeepsAccumulated(self, t) ==
    [self EXCEPT !.start_time = Some(t),
                 !.pause_time = None,
                 !.state = IF @ # "Stopped" THEN "Running" ELSE @]

\* variant of reset: the timer is set Running whatever its state
reset_AlwaysRunning(self, t) ==
    [self EXCEPT !.start_time = Some(t),
                 !.pause_time = None,
                 !.elapsed_before_pause = 0,
                 !.state = "Running"]

reset(self, t) ==
    [self EXCEPT !.start_time = Some(t),
                 !.pause_time = None,
                 !.elapsed_before_pause = 0,
                 !.state = IF @ # "Stopped" THEN "Running" ELSE @]

switch_to_work(self, t) == reset([self EXCEPT !.timer_type = "Work"], t)

\* variant of switch_to_break: the phase is changed without the reset
switch_to_break_NoReset(self, t) == [self EXCEPT !.timer_type = "Break"]

switch_to_break(self, t) == reset([self EXCEPT !.timer_type = "Break"], t)

\* variant of elapsed: a Paused timer is measured up to the current instant
elapsed_PausedUsesNow(self, t) ==
    IF self.state = "Running" /\ self.start_time # None
    THEN self.elapsed_before_pause + duration_since(t, self.start_time[1])
    ELSE IF self.state = "Paused" /\ self.start_time # None /\ self.pause_time # None
    THEN self.elapsed_before_pause + duration_since(t, self.start_time[1])
    ELSE self.elapsed_before_pause

elapsed(self, t) ==
    IF self.state = "Running" /\ self.start_time # None
    THEN self.elapsed_before_pause + duration_since(t, self.start_time[1])
    ELSE IF self.state = "Paused" /\ self.start_time # None /\ self.pause_time # None
    THEN self.elapsed_before_pause
            + duration_since(self.pause_time[1], self.start_time[1])
    ELSE self.elapsed_before_pause

total_time(self) ==
    IF self.timer_type = "Work" THEN self.work_duration ELSE self.break_duration

\* variant of is_complete: strict comparison
is_complete_Strict(self, t) == elapsed(self, t) > total_time(self)

is_complete(self, t) == elapsed(self, t) >= total_time(self)

\* ---- Database (db.rs) -----------------------------------------------------
\* DateTime::to_rfc3339: the timestamp as text
to_rfc3339(t) == [rfc3339 |-> t]

\* rusqlite stores a bool parameter as the integer 0 or 1
bool_to_sql(b) == IF b THEN 1 ELSE 0

\* rusqlite reads a bool column back as "integer is not zero"
sql_to_bool(v) == v # 0

\* variant of initialize: the table is created anew, dropping its rows
initialize_Recreates(self) == [has_table |-> TRUE, rows |-> << >>]

\* CREATE TABLE IF NOT EXISTS sessions (...)
initialize(self) ==
    IF self.has_table THEN self ELSE [has_table |-> TRUE, rows |-> << >>]

\* variant of save_session: the completed column is always written as 1
save_session_AlwaysCompleted(self, start_time, end_time, pomodoro_count, completed) ==
    IF self.has_table
    THEN [self EXCEPT !.rows = Append(@,
             [ id             |-> Len(self.rows) + 1,
               start_time     |-> to_rfc3339(start_time),
               end_time       |-> to_rfc3339(end_time),
               pomodoro_count |-> pomodoro_count,
               completed      |-> 1 ])]
    ELSE self

\* INSERT INTO sessions (start_time, end_time, pomodoro_count, completed);
\* id is the INTEGER PRIMARY KEY, one more than the largest id (rows are
\* never deleted); the insert fails and stores nothing when the table is
\* missing.  pomodoro_count as i64 keeps every count below 2^63, which
\* covers all counts tried here.
save_session(self, start_time, end_time, pomodoro_count, completed) ==
    IF self.has_table
    THEN [self EXCEPT !.rows = Append(@,
             [ id             |-> Len(self.rows) + 1,
               start_time     |-> to_rfc3339(start_time),
               end_time       |-> to_rfc3339(end_time),
               pomodoro_count |-> pomodoro_count,
               completed      |-> bool_to_sql(completed) ])]
    ELSE self

\* ---- run_pomodoro_timer (main.rs) -----------------------------------------
\* In the driving loop one clock unit is one minute.
SecsPerUnit == 60

\* Duration::from_secs
from_secs(secs) == secs \div SecsPerUnit

\* Duration::as_secs
as_secs(d) == d * SecsPerUnit

\* a quit saves the partial session only past this many seconds of work
QuitSaveSecs == 60

\* variant of should_switch: the wrong run state is tested
should_switch_WhenPaused(self, t) == self.state = "Paused" /\ is_complete(self, t)

\* variant of should_switch: the run state is not tested
should_switch_IgnoresState(self, t) == is_complete(self, t)

\* the test of "Handle elapsed timer"
should_switch(self, t) == self.state = "Running" /\ is_complete(self, t)

\* the test of the quit key for saving the partial session
should_save_partial(self, t) ==
    self.timer_type = "Work" /\ as_secs(elapsed(self, t)) > QuitSaveSecs

\* ---- state ---------------------------------------------------------------
VARIABLES
    timer,          \* the PomodoroTimer
    now,            \* the monotonic clock read by Instant::now()
    op,             \* history: the last command issued ("none" before any)
    opTime,         \* history: the instant of the last command
    prev,           \* history: the timer as it was just before the last command
    runTime,        \* history: clock time spent Running since the last
                    \*          start / reset / phase switch
    elapsedAtPause, \* history: elapsed() just before the last applied pause()
    db,             \* the Database: the sessions table behind the connection
    session         \* the locals of run_pomodoro_timer and its position

vars == << timer, now, op, opTime, prev, runTime, elapsedAtPause, db, session >>

Durations == 0 .. MaxDur

\* a connection to a database file that has no sessions table yet
NoDatabase == [has_table |-> FALSE, rows |-> << >>]

\* run_pomodoro_timer has not been entered
NoSession == [pc |-> "off", start_time |-> 0, completed_pomodoros |-> 0,
              rows_before |-> 0]

Init ==
    /\ \E w \in Durations, b \in Durations : timer = new(w, b)
    /\ now = 0
    /\ op = "none"
    /\ opTime = 0
    /\ prev = timer
    /\ runTime = 0
    /\ elapsedAtPause = 0
    /\ db = NoDatabase
    /\ session = NoSession

\* the clock advances by an irregular amount; no command is issued
Tick ==
    /\ \E d \in 1 .. MaxStep :
          /\ now + d <= MaxTime
          /\ now' = now + d
          /\ runTime' = IF timer.state = "Running" THEN runTime + d ELSE runTime
    /\ UNCHANGED << timer, op, opTime, prev, elapsedAtPause, db, session >>

Issued(name) ==
    /\ op' = name
    /\ opTime' = now
    /\ prev' = timer
    /\ UNCHANGED now

Start ==
    /\ timer' = start(timer, now)
    /\ runTime' = 0
    /\ Issued("start")
    /\ UNCHANGED << elapsedAtPause, db, session >>

Pause ==
    /\ timer' = pause(timer, now)
    /\ elapsedAtPause' = IF timer.state = "Running"
                         THEN elapsed(timer, now) ELSE elapsedAtPause
    /\ Issued("pause")
    /\ UNCHANGED << runTime, db, session >>

Resume ==
    /\ timer' = resume(timer, now)
    /\ Issued("resume")
    /\ UNCHANGED << runTime, elapsedAtPause, db, session >>

Reset ==
    /\ timer' = reset(timer, now)
    /\ runTime' = 0
    /\ Issued("reset")
    /\ UNCHANGED << elapsedAtPause, db, session >>

SwitchToWork ==
    /\ timer' = switch_to_work(timer, now)
    /\ runTime' = 0
    /\ Issued("switch_to_work")
    /\ UNCHANGED << elapsedAtPause, db, session >>

SwitchToBreak ==
    /\ timer' = switch_to_break(timer, now)
    /\ runTime' = 0
    /\ Issued("switch_to_break")
    /\ UNCHANGED << elapsedAtPause, db, session >>

Next ==
    \/ Tick
    \/ Start
    \/ Pause
    \/ Resume
    \/ Reset
    \/ SwitchToWork
    \/ SwitchToBreak

Spec == Init /\ [][Next]_vars

TypeOK ==
    /\ timer.state \in TimerState
    /\ timer.timer_type \in TimerType
    /\ now \in 0 .. MaxTime
    /\ Len(timer.start_time) <= 1
    /\ Len(timer.pause_time) <= 1

\* ---- the session store alone ----------------------------------------------
InitDb ==
    /\ timer = new(MaxDur, MaxDur)
    /\ now = 0
    /\ op = "none"
    /\ opTime = 0
    /\ prev = timer
    /\ runTime = 0
    /\ elapsedAtPause = 0
    /\ db = NoDatabase
    /\ session = NoSession

Stamps == 0 .. MaxStamp

Counts == 0 .. MaxPomodoros

DbInitialize ==
    /\ db' = initialize(db)
    /\ Issued("initialize")
    /\ UNCHANGED << timer, runTime, elapsedAtPause, session >>

SaveSessionCall(start_time, end_time, pomodoro_count, completed) ==
    /\ Len(db.rows) < MaxRows
    /\ db' = save_session(db, start_time, end_time, pomodoro_count, completed)
    /\ Issued("save_session")
    /\ UNCHANGED << timer, runTime, elapsedAtPause, session >>

DbSaveSession ==
    \E s \in Stamps, e \in Stamps, c \in Counts, k \in BOOLEAN :
        SaveSessionCall(s, e, c, k)

NextDb ==
    \/ DbInitialize
    \/ DbSaveSession

SpecDb == InitDb /\ [][NextDb]_vars

\* ---- the driving loop ------------------------------------------------------
\* a sessions table left by an earlier run of the program
OldStore == save_session(initialize(NoDatabase), 0, 0, 1, TRUE)

\* main() has opened and initialized the store; run_pomodoro_timer has
\* created and started the timer and is about to enter its loop
InitLoop ==
    /\ \E work_mins \in Durations, break_mins \in Durations :
          /\ prev = new(from_secs(work_mins * 60), from_secs(break_mins * 60))
          /\ timer = start(prev, 0)
    /\ now = 0
    /\ op = "start"
    /\ opTime = 0
    /\ runTime = 0
    /\ elapsedAtPause = 0
    /\ db \in {initialize(NoDatabase), initialize(OldStore)}
    /\ session = [pc |-> "elapsed", start_time |-> 0,
                  completed_pomodoros |-> 0, rows_before |-> Len(db.rows)]

\* the loop calls a method of the timer
TimerCall(name, result) ==
    /\ timer' = result
    /\ Issued(name)
    /\ runTime' = IF name \in {"pause", "resume"} THEN runTime ELSE 0
    /\ elapsedAtPause' = IF name = "pause" /\ timer.state = "Running"
                         THEN elapsed(timer, now) ELSE elapsedAtPause

NoTimerCall == UNCHANGED << timer, now, op, opTime, prev, runTime, elapsedAtPause >>

\* variant of WorkCompleted: the record carries the counter before the
\* increment
WorkCompleted_SavesOldCount ==
    /\ session.completed_pomodoros < MaxPomodoros
    /\ \E stored \in BOOLEAN :
          IF stored
          THEN /\ session' = [session EXCEPT !.completed_pomodoros = @ + 1,
                                             !.pc = "notify_work"]
               /\ db' = save_session(db, session.start_time, now,
                                     session.completed_pomodoros, TRUE)
          ELSE /\ session' = [session EXCEPT !.completed_pomodoros = @ + 1,
                                             !.pc = "save_failed"]
               /\ db' = db
    /\ NoTimerCall

\* a work session completed: count it, then record it with the time of the
\* test as its end.  When the row is stored the notification comes next;
\* when the INSERT fails (the store is locked, full or was changed from
\* outside) nothing is stored and the error ends run_pomodoro_timer, the
\* counter already incremented.  The counter is capped at MaxPomodoros.
WorkCompleted ==
    /\ session.completed_pomodoros < MaxPomodoros
    /\ \E stored \in BOOLEAN :
          IF stored
          THEN /\ session' = [session EXCEPT !.completed_pomodoros = @ + 1,
                                             !.pc = "notify_work"]
               /\ db' = save_session(db, session.start_time, now,
                                     session.completed_pomodoros + 1, TRUE)
          ELSE /\ session' = [session EXCEPT !.completed_pomodoros = @ + 1,
                                             !.pc = "save_failed"]
               /\ db' = db
    /\ NoTimerCall

\* a break completed: nothing is recorded; the notification comes next
BreakCompleted ==
    /\ session' = [session EXCEPT !.pc = "notify_break"]
    /\ NoTimerCall
    /\ UNCHANGED db

\* "Handle elapsed timer": the test at the start of a loop iteration and,
\* for a completed work session, the counting and recording
HandleElapsed ==
    /\ session.pc = "elapsed"
    /\ IF should_switch(timer, now)
       THEN IF timer.timer_type = "Work" THEN WorkCompleted ELSE BreakCompleted
       ELSE /\ session' = [session EXCEPT !.pc = "event"]
            /\ NoTimerCall
            /\ UNCHANGED db

\* Notification::show() for the completed work session returns, after
\* whatever time the notification service took: when shown, the timer is
\* switched to the break at the instant of the return; when it failed, the
\* error ends run_pomodoro_timer
NotifyWork ==
    /\ session.pc = "notify_work"
    /\ \E shown \in BOOLEAN :
          IF shown
          THEN /\ TimerCall("switch_to_break", switch_to_break(timer, now))
               /\ session' = [session EXCEPT !.pc = "event"]
          ELSE /\ NoTimerCall
               /\ session' = [session EXCEPT !.pc = "notify_failed"]
    /\ UNCHANGED db

\* Notification::show() for the completed break returns: when shown, the
\* timer is switched back to work; when it failed, the error ends
\* run_pomodoro_timer
NotifyBreak ==
    /\ session.pc = "notify_break"
    /\ \E shown \in BOOLEAN :
          IF shown
          THEN /\ TimerCall("switch_to_work", switch_to_work(timer, now))
               /\ session' = [session EXCEPT !.pc = "event"]
          ELSE /\ NoTimerCall
               /\ session' = [session EXCEPT !.pc = "notify_failed"]
    /\ UNCHANGED db

Events == {"timeout", "q", "p", "r", "other"}

\* the last part of a loop iteration: event::poll timed out, or a key was
\* read and handled; timer.update() does nothing
KeyEvent(ev) ==
    /\ session.pc = "event"
    /\ CASE ev = "q" ->
              /\ IF should_save_partial(timer, now)
                 THEN \E stored \in BOOLEAN :
                         IF stored
                         THEN /\ db' = save_session(db, session.start_time, now,
                                           session.completed_pomodoros, FALSE)
                              /\ session' = [session EXCEPT !.pc = "done"]
                         ELSE /\ db' = db
                              /\ session' = [session EXCEPT !.pc = "quit_failed"]
                 ELSE /\ db' = db
                      /\ session' = [session EXCEPT !.pc = "done"]
              /\ NoTimerCall
         [] ev = "p" ->
              /\ IF timer.state = "Running"
                 THEN TimerCall("pause", pause(timer, now))
                 ELSE IF timer.state = "Paused"
                 THEN TimerCall("resume", resume(timer, now))
                 ELSE NoTimerCall
              /\ session' = [session EXCEPT !.pc = "elapsed"]
              /\ UNCHANGED db
         [] ev = "r" ->
              /\ TimerCall("reset", reset(timer, now))
              /\ session' = [session EXCEPT !.pc = "elapsed"]
              /\ UNCHANGED db
         [] OTHER ->
              /\ session' = [session EXCEPT !.pc = "elapsed"]
              /\ NoTimerCall
              /\ UNCHANGED db

HandleEvent == \E ev \in Events : KeyEvent(ev)

NextLoop ==
    \/ Tick
    \/ HandleElapsed
    \/ NotifyWork
    \/ NotifyBreak
    \/ HandleEvent

SpecLoop == InitLoop /\ [][NextLoop]_vars

\* The loop never blocks: event::poll returns within 100 ms and
\* Notification::show() returns, so each part of an iteration is eventually
\* taken, and the clock keeps advancing (up to the last instant modelled).
SpecLoopFair ==
    /\ SpecLoop
    /\ WF_vars(Tick)
    /\ WF_vars(HandleElapsed)
    /\ WF_vars(NotifyWork)
    /\ WF_vars(NotifyBreak)
    /\ WF_vars(HandleEvent)

\* ---- C1 ------------------------------------------------------------------
Boundary == Start \/ Reset \/ SwitchToWork \/ SwitchToBreak

\* C1: under every interleaving of commands and irregular clock advances,
\* elapsed() equals the clock time spent Running since the most recent
\* start, reset or phase switch (paused time contributes nothing), and while
\* Running it is accumulated + (now - phase_start).
C1_ElapsedIsRunningTime ==
    /\ elapsed(timer, now) = runTime
    /\ timer.state = "Running" =>
          /\ timer.start_time # None
          /\ now >= timer.start_time[1]
          /\ elapsed(timer, now)
                = timer.elapsed_before_pause + (now - timer.start_time[1])

\* Running again after a pause that lasted a while, with banked time and
\* time on the current interval
C1_Witness ==
    /\ timer.state = "Running"
    /\ timer.elapsed_before_pause > 0
    /\ now > timer.start_time[1]
    /\ op = "resume"
    /\ prev.state = "Paused"
    /\ opTime > prev.pause_time[1]

\* ---- C2 ------------------------------------------------------------------
\* C2: while Paused, elapsed() keeps the value it had just before the
\* pause() however far the clock advances, and immediately after the
\* matching resume() elapsed() is that same value.
C2_PauseFreezesElapsed ==
    /\ timer.state = "Paused" => elapsed(timer, now) = elapsedAtPause
    /\ (op = "resume" /\ prev.state = "Paused" /\ now = opTime)
          => elapsed(timer, now) = elapsedAtPause

\* just resumed from a pause that lasted a while, with time on the clock
C2_Witness ==
    /\ op = "resume"
    /\ prev.state = "Paused"
    /\ now = opTime
    /\ opTime > prev.pause_time[1]
    /\ elapsedAtPause > 0


\* ---- C3 ------------------------------------------------------------------
\* C3: a step that is not start / reset / phase switch (a clock advance, a
\* pause() or a resume()) never decreases elapsed().
C3_ElapsedMonotonic ==
    [][~Boundary => elapsed(timer', now') >= elapsed(timer, now)]_vars

\* a resumed timer that has run on after a pause of some length
C3_Witness ==
    /\ op = "resume"
    /\ prev.state = "Paused"
    /\ opTime > prev.pause_time[1]
    /\ now > opTime
    /\ elapsedAtPause > 0
    /\ elapsed(timer, now) > elapsedAtPause

\* ---- C4 ------------------------------------------------------------------
PhaseTotal ==
    IF timer.timer_type = "Work" THEN timer.work_duration
                                 ELSE timer.break_duration

\* C4: is_complete() is true exactly when elapsed() >= the configured total
\* of the current phase (work_total in Work, break_total in Break), the
\* exact boundary included.
C4_CompleteIffElapsedReachesTotal ==
    /\ total_time(timer) = PhaseTotal
    /\ is_complete(timer, now) <=> (elapsed(timer, now) >= PhaseTotal)
    /\ elapsed(timer, now) = PhaseTotal => is_complete(timer, now)
    /\ elapsed(timer, now) < PhaseTotal => ~is_complete(timer, now)

\* a Break phase exactly at its boundary
C4_Witness ==
    /\ timer.timer_type = "Break"
    /\ timer.break_duration > 0
    /\ timer.break_duration # timer.work_duration
    /\ timer.state = "Running"
    /\ elapsed(timer, now) = timer.break_duration
    /\ is_complete(timer, now)


\* ---- C5 ------------------------------------------------------------------
\* C5: with work_total > 0 and break_total > 0, as long as no command has
\* been issued the timer is Stopped, in phase Work, total_time() is
\* work_total and elapsed() is 0, whatever the clock reads.
C5_FreshTimer ==
    (op = "none" /\ timer.work_duration > 0 /\ timer.break_duration > 0)
       => /\ timer.state = "Stopped"
          /\ timer.timer_type = "Work"
          /\ elapsed(timer, now) = 0
          /\ total_time(timer) = timer.work_duration

\* a fresh timer on which the clock has advanced
C5_Witness ==
    /\ op = "none"
    /\ timer.work_duration > 0
    /\ timer.break_duration > 0
    /\ timer.work_duration # timer.break_duration
    /\ now > 0

\* ---- C6 ------------------------------------------------------------------
\* C6: at the instant start() returns, from any prior state, the timer is
\* Running with phase_start = now, accumulated = 0, pause_instant cleared,
\* elapsed() = 0 and the phase unchanged.
C6_StartRearms ==
    (op = "start" /\ now = opTime)
       => /\ timer.state = "Running"
          /\ timer.start_time = Some(now)
          /\ timer.elapsed_before_pause = 0
          /\ timer.pause_time = None
          /\ elapsed(timer, now) = 0
          /\ timer.timer_type = prev.timer_type

\* ---- C7 ------------------------------------------------------------------
InvalidPause == Pause /\ timer.state \in {"Stopped", "Paused"}

InvalidResume == Resume /\ timer.state \in {"Stopped", "Running"}

\* C7: pause() on a Stopped or Paused timer and resume() on a Stopped or
\* Running timer leave every field of the timer unchanged.
C7_InvalidTransitionsAreNoOps ==
    [][(InvalidPause \/ InvalidResume) => timer' = timer]_vars

\* pause() issued again on a timer paused some time ago
C7_Witness ==
    /\ op = "pause"
    /\ prev.state = "Paused"
    /\ opTime > prev.pause_time[1]
    /\ timer = prev

\* ---- C8 ------------------------------------------------------------------
\* C8: at the instant reset() returns, from any prior state, elapsed() = 0,
\* phase_start is the reset instant, pause_instant is cleared, accumulated
\* is 0 and the phase is unchanged; as the clock then advances elapsed()
\* counts only the time since the reset instant.
C8_ResetRearms ==
    op = "reset"
       => /\ timer.start_time = Some(opTime)
          /\ timer.pause_time = None
          /\ timer.elapsed_before_pause = 0
          /\ timer.timer_type = prev.timer_type
          /\ now = opTime => elapsed(timer, now) = 0
          /\ elapsed(timer, now)
                = IF timer.state = "Running" THEN now - opTime ELSE 0

\* reset() hit a Paused timer that had banked time, and the clock has
\* advanced since
C8_Witness ==
    /\ op = "reset"
    /\ prev.state = "Paused"
    /\ elapsed(prev, opTime) > 0
    /\ prev.elapsed_before_pause > 0
    /\ now > opTime

\* ---- C9 ------------------------------------------------------------------
\* C9: after reset() the timer is Running if it was Running or Paused and
\* Stopped if it was Stopped; a Stopped timer that has been reset keeps
\* elapsed() = 0 as the clock advances.
C9_ResetRunState ==
    /\ op = "reset" =>
          timer.state = IF prev.state = "Stopped" THEN "Stopped" ELSE "Running"
    /\ (timer.state = "Stopped" /\ timer.start_time # None)
          => elapsed(timer, now) = 0

\* a Stopped timer was reset and the clock has advanced since
C9_Witness ==
    /\ op = "reset"
    /\ prev.state = "Stopped"
    /\ timer.state = "Stopped"
    /\ timer.start_time = Some(opTime)
    /\ now > opTime

\* ---- C10 -----------------------------------------------------------------
SwitchTarget == IF op = "switch_to_work" THEN "Work" ELSE "Break"

\* C10: at the instant switch_to_work() / switch_to_break() returns, the
\* phase is the target, total_time() is the target's configured total,
\* elapsed() = 0, pause_instant is cleared, and the timer is what reset()
\* yields from the prior state with the phase set to the target; so
\* switch_to_break() on a Running or Paused timer leaves it Running in Break.
C10_SwitchIsRetargetThenReset ==
    (op \in {"switch_to_work", "switch_to_break"} /\ now = opTime)
       => /\ timer.timer_type = SwitchTarget
          /\ total_time(timer) = IF SwitchTarget = "Work"
                                 THEN timer.work_duration
                                 ELSE timer.break_duration
          /\ elapsed(timer, now) = 0
          /\ timer.pause_time = None
          /\ timer.state = reset(prev, opTime).state
          /\ timer = reset([prev EXCEPT !.timer_type = SwitchTarget], opTime)
          /\ (op = "switch_to_break" /\ prev.state \in {"Running", "Paused"})
                => timer.timer_type = "Break" /\ timer.state = "Running"

\* switch_to_break() hit a Paused Work timer with elapsed time
C10_Witness ==
    /\ op = "switch_to_break"
    /\ now = opTime
    /\ prev.timer_type = "Work"
    /\ prev.state = "Paused"
    /\ elapsed(prev, opTime) > 0
    /\ timer.work_duration # timer.break_duration

\* ---- C11 -----------------------------------------------------------------
Switched == op \in {"switch_to_work", "switch_to_break"}

\* C11 as stated: after switch_to_work() / switch_to_break() the timer is
\* Running whatever its prior state, Stopped included.
C11_SwitchForcesRunning ==
    Switched => timer.state = "Running"

\* C11 amended: after switch_to_work() / switch_to_break() the timer is
\* Running if it was Running or Paused and still Stopped if it was Stopped,
\* the same rule as reset().
C11_SwitchKeepsStopped ==
    /\ Switched =>
          timer.state = IF prev.state = "Stopped" THEN "Stopped" ELSE "Running"
    /\ (Switched /\ prev.state = "Stopped") => timer.state # "Running"

\* a phase switch hit a Stopped timer, and the clock has advanced since
C11_Witness ==
    /\ op = "switch_to_break"
    /\ prev.state = "Stopped"
    /\ timer.state = "Stopped"
    /\ timer.timer_type = "Break"
    /\ now > opTime

\* ---- C14 -----------------------------------------------------------------
\* C14: in every reachable state pause_instant is set if and only if the
\* timer is Paused.
C14_PauseInstantIffPaused ==
    (timer.pause_time # None) <=> (timer.state = "Paused")

\* ---- C15 -----------------------------------------------------------------
\* C15: a Running or Paused timer has phase_start set; start(), reset() and
\* the phase switches set it, and once set it is never unset, so it is unset
\* only on a Stopped timer on which none of them has been called.
C15_PhaseStartSet ==
    /\ [](timer.state \in {"Running", "Paused"} => timer.start_time # None)
    /\ [](timer.start_time = None => timer.state = "Stopped")
    /\ [][Boundary => timer'.start_time = Some(now)]_vars
    /\ [][timer.start_time # None => timer'.start_time # None]_vars

\* pause() and resume() were tried on a never-started timer as time passed
C15_Witness ==
    /\ timer.start_time = None
    /\ timer.state = "Stopped"
    /\ op = "resume"
    /\ opTime > 0

\* ---- C16 -----------------------------------------------------------------
Accumulated == timer.elapsed_before_pause

\* C16: start(), reset() and the phase switches zero accumulated; clock
\* advances, pause() and an invalid resume() leave it unchanged; resume() on
\* a Paused timer adds exactly pause_instant - phase_start; so between two
\* zeroing events it never decreases.
C16_AccumulatedSteps ==
    [][ /\ Boundary => Accumulated' = 0
        /\ (Tick \/ Pause \/ InvalidResume) => Accumulated' = Accumulated
        /\ (Resume /\ timer.state = "Paused") =>
              /\ timer.pause_time # None /\ timer.start_time # None
              /\ timer.pause_time[1] >= timer.start_time[1]
              /\ Accumulated'
                    = Accumulated + (timer.pause_time[1] - timer.start_time[1])
        /\ ~Boundary => Accumulated' >= Accumulated ]_vars

\* a second pause/resume cycle added a non-empty interval to banked time
C16_Witness ==
    /\ op = "resume"
    /\ prev.state = "Paused"
    /\ prev.elapsed_before_pause > 0
    /\ timer.elapsed_before_pause > prev.elapsed_before_pause

\* ---- C17 -----------------------------------------------------------------
\* C17: whenever the timer is Paused, phase_start and pause_instant are both
\* set and phase_start <= pause_instant, so resume() folds and the
\* difference is never negative.
C17_PausedHasBothInstants ==
    timer.state = "Paused"
       => /\ timer.start_time # None
          /\ timer.pause_time # None
          /\ timer.start_time[1] <= timer.pause_time[1]
          /\ resume(timer, now).elapsed_before_pause
                = timer.elapsed_before_pause
                     + (timer.pause_time[1] - timer.start_time[1])

\* Paused after a non-empty running interval, which had been restarted
\* from an earlier pause
C17_Witness ==
    /\ timer.state = "Paused"
    /\ timer.pause_time # None
    /\ timer.start_time # None
    /\ timer.pause_time[1] > timer.start_time[1]
    /\ timer.start_time[1] > 0
    /\ now > timer.pause_time[1]

\* ---- C19 -----------------------------------------------------------------
\* C19: no step takes a Running or Paused timer to Stopped, and every
\* Stopped state has accumulated = 0 and elapsed() = 0.
C19_NeverBackToStopped ==
    /\ [][timer.state # "Stopped" => timer'.state # "Stopped"]_vars
    /\ [](timer.state = "Stopped" =>
             timer.elapsed_before_pause = 0 /\ elapsed(timer, now) = 0)

\* reset() hit a Paused timer at a later instant and left it Running
C19_Witness ==
    /\ op = "reset"
    /\ prev.state = "Paused"
    /\ timer.state = "Running"
    /\ now = opTime
    /\ opTime > 0

\* ---- C13 -----------------------------------------------------------------
LastRow(d) == d.rows[Len(d.rows)]

Counter == session.completed_pomodoros

\* a completed work interval was counted and recorded, the notification is
\* next
RecordedWork ==
    /\ Counter' = Counter + 1
    /\ db' = save_session(db, session.start_time, now, Counter', TRUE)
    /\ timer' = timer
    /\ session'.pc = "notify_work"

\* a completed break was found, nothing recorded, the notification is next
FoundBreakOver ==
    /\ Counter' = Counter
    /\ db' = db
    /\ timer' = timer
    /\ session'.pc = "notify_break"

\* neither the timer, the counter nor the store changed
NothingSwitched ==
    /\ timer' = timer
    /\ Counter' = Counter
    /\ db' = db

\* the loop left the notification of the given phase's completion
NotificationOver(pc) == session.pc = pc /\ session'.pc # pc

\* the loop went on from the notification by switching to the other phase
SwitchedToBreak ==
    /\ timer' = switch_to_break(timer, now)
    /\ Counter' = Counter
    /\ db' = db
    /\ session'.pc = "event"

SwitchedToWork ==
    /\ timer' = switch_to_work(timer, now)
    /\ Counter' = Counter
    /\ db' = db
    /\ session'.pc = "event"

\* the loop ended with the error of the notification
EndedWithError == session'.pc = "notify_failed" /\ NothingSwitched

\* the loop ended with the error of save_session(): no row, no switch
SaveFailed ==
    /\ session'.pc = "save_failed"
    /\ db' = db
    /\ timer' = timer

\* C12 as stated: at every loop tick at which is_complete() is true,
\* whatever the run state, the loop switches phase in that tick (Work:
\* record and switch_to_break(); Break: switch_to_work(), no record).
C12_SwitchWheneverComplete ==
    [][ /\ (HandleElapsed /\ is_complete(timer, now)) =>
              IF timer.timer_type = "Work" THEN RecordedWork ELSE FoundBreakOver
        /\ NotificationOver("notify_work") => SwitchedToBreak
        /\ NotificationOver("notify_break") => SwitchedToWork ]_vars

\* C12 amended: at every loop tick at which the timer is Running and
\* is_complete() is true the loop, in that tick, records a completed work
\* interval if the phase is Work, shows the notification and then calls
\* switch_to_break() (Work) or switch_to_work() (Break), unless saving the
\* record fails, which ends the loop with no record, no notification and
\* no switch, or showing the notification fails, which ends the loop
\* without a switch; at a tick at which the timer is not Running, or not
\* complete, the loop switches nothing and records nothing.
C12_SwitchWhenRunningAndComplete ==
    [][ /\ (HandleElapsed /\ timer.state = "Running" /\ is_complete(timer, now))
           => IF timer.timer_type = "Work"
              THEN RecordedWork \/ SaveFailed
              ELSE FoundBreakOver
        /\ (HandleElapsed /\ ~(timer.state = "Running" /\ is_complete(timer, now)))
           => (NothingSwitched /\ session'.pc = "event")
        /\ NotificationOver("notify_work")
           => (SwitchedToBreak \/ EndedWithError)
        /\ NotificationOver("notify_break")
           => (SwitchedToWork \/ EndedWithError) ]_vars

\* the loop has passed its completion test on a timer that was paused after
\* its elapsed time reached a non-zero total, and the phase is still Work
C12_Witness ==
    /\ session.pc = "event"
    /\ op = "pause"
    /\ timer.state = "Paused"
    /\ timer.timer_type = "Work"
    /\ timer.work_duration > 0
    /\ is_complete(timer, now)
    /\ session.completed_pomodoros = 0
    /\ now > opTime

\* ---- C18 -----------------------------------------------------------------
\* the completed = true records this run of the loop has saved
CompletedSaved ==
    {i \in (session.rows_before + 1) .. Len(db.rows) :
        sql_to_bool(db.rows[i].completed)}

AutoSwitch == timer'.timer_type # timer.timer_type

\* the tick's test finds a Running, completed Work phase
CountedTick ==
    /\ HandleElapsed
    /\ timer.timer_type = "Work"
    /\ should_switch(timer, now)

\* exactly one record was saved, completed = true, with the new counter
RecordSaved ==
    /\ Len(db'.rows) = Len(db.rows) + 1
    /\ SubSeq(db'.rows, 1, Len(db.rows)) = db.rows
    /\ sql_to_bool(LastRow(db').completed)
    /\ LastRow(db').pomodoro_count = Counter'
    /\ session'.pc = "notify_work"

\* a completed = true record has been added
CompletedAdded ==
    /\ Len(db'.rows) > Len(db.rows)
    /\ sql_to_bool(LastRow(db').completed)

\* a switch to Break follows a record of this run that carries the counter
\* and saves nothing more; a switch to Work saves nothing and keeps the
\* counter
SwitchSteps ==
    /\ (AutoSwitch /\ timer.timer_type = "Work") =>
          /\ session.pc = "notify_work"
          /\ timer'.timer_type = "Break"
          /\ Len(db.rows) > session.rows_before
          /\ sql_to_bool(LastRow(db).completed)
          /\ LastRow(db).pomodoro_count = Counter
          /\ db' = db
          /\ Counter' = Counter
    /\ (AutoSwitch /\ timer.timer_type = "Break") =>
          /\ session.pc = "notify_break"
          /\ timer'.timer_type = "Work"
          /\ db' = db
          /\ Counter' = Counter

\* the counter moves in every tick that finds a Running, completed Work
\* phase, by one, and in no other step; completed = true records are added
\* in no other step
CounterSteps ==
    /\ Counter' # Counter => CountedTick
    /\ CountedTick => Counter' = Counter + 1
    /\ CompletedAdded => CountedTick

CounterIsRecords ==
    session.pc # "off" => Cardinality(CompletedSaved) = Counter

\* C18 as stated: the completed-work counter increases by exactly one at
\* each automatic Work -> Break switch and at no other time (every counted
\* work session is recorded and followed by its switch); the switch comes
\* with exactly one record, completed = true, carrying the incremented
\* counter; an automatic Break -> Work switch saves nothing and keeps the
\* counter; the completed = true records saved are as many as the counter.
C18_CounterOnlyAtSwitch ==
    /\ [][CounterSteps /\ SwitchSteps]_vars
    /\ [][CountedTick => RecordSaved]_vars
    /\ [][NotificationOver("notify_work") => timer'.timer_type = "Break"]_vars
    /\ []CounterIsRecords

\* C18 amended: the completed-work counter increases by exactly one in each
\* loop tick that finds a Running, completed Work phase, and at no other
\* time; that tick saves exactly one record, completed = true, carrying the
\* incremented counter, and then switches Work -> Break, unless saving
\* fails, which ends the loop with the counter incremented and no record
\* saved, or showing the notification fails, which ends the loop with the
\* record saved and no switch; an automatic Break -> Work switch saves
\* nothing and keeps the counter; the completed = true records saved by the
\* loop are as many as the counter, except after a failed save of a
\* completed work session, when they are one fewer.
C18_CounterMatchesRecords ==
    /\ [][CounterSteps /\ SwitchSteps]_vars
    /\ [][CountedTick => (RecordSaved \/ SaveFailed)]_vars
    /\ [][NotificationOver("notify_work")
             => (SwitchedToBreak \/ EndedWithError)]_vars
    /\ [](session.pc = "save_failed"
             => Cardinality(CompletedSaved) + 1 = Counter)
    /\ [](session.pc \notin {"off", "save_failed"}
             => Cardinality(CompletedSaved) = Counter)

\* on top of the records of an earlier run, a first work session was
\* recorded and followed by its break; the second was counted, but saving
\* its record failed and the loop ended in Work
C18_Witness ==
    /\ session.completed_pomodoros = 2
    /\ session.rows_before = 1
    /\ session.pc = "save_failed"
    /\ Cardinality(CompletedSaved) = 1
    /\ Len(db.rows) = 2
    /\ timer.timer_type = "Work"
    /\ timer.work_duration > 0

\* ---- C20 -----------------------------------------------------------------
PositiveTotals == timer.work_duration > 0 /\ timer.break_duration > 0

\* C20: with work_total > 0 and break_total > 0, is_complete() is false
\* right after every automatic switch (so the same completion is not
\* switched or recorded twice), the phase changes only in a loop tick whose
\* test found is_complete(), which still holds at the switch, and each
\* automatic switch goes to the other phase, Work -> Break -> Work.
C20_OneSwitchPerCompletion ==
    /\ [][ PositiveTotals =>
             /\ AutoSwitch =>
                   /\ session.pc \in {"notify_work", "notify_break"}
                   /\ is_complete(timer, now)
                   /\ ~is_complete(timer', now')
                   /\ ~should_switch(timer', now')
                   /\ db' = db
             /\ HandleElapsed => Len(db'.rows) <= Len(db.rows) + 1
             /\ (NotificationOver("notify_work") /\ session'.pc # "notify_failed")
                   => /\ timer.timer_type = "Work"
                      /\ timer'.timer_type = "Break"
                      /\ op' = "switch_to_break"
             /\ (NotificationOver("notify_break") /\ session'.pc # "notify_failed")
                   => /\ timer.timer_type = "Break"
                      /\ timer'.timer_type = "Work"
                      /\ op' = "switch_to_work"
         ]_vars
    /\ [](session.pc \in {"notify_work", "notify_break"}
             => should_switch(timer, now))

\* work completed, then the break completed, and the loop is back in Work,
\* each switch made some time after its completion was found
C20_Witness ==
    /\ timer.work_duration > 0
    /\ timer.break_duration > 0
    /\ op = "switch_to_work"
    /\ now = opTime
    /\ timer.timer_type = "Work"
    /\ session.completed_pomodoros = 1
    /\ session.pc = "event"
    /\ Len(db.rows) > session.rows_before
    /\ LastRow(db).end_time.rfc3339 < prev.start_time[1]
    /\ prev.start_time[1] + timer.break_duration < now

\* ---- C21 -----------------------------------------------------------------
\* clock time that has not counted towards the current phase: it grows only
\* while the timer is paused, or when a reset or switch discards time
Idle == now - elapsed(timer, now)

\* the loop has ended: the user quit, or a save or a notification failed
LoopEnded == session.pc \in {"done", "quit_failed", "save_failed", "notify_failed"}

\* the user got in the way after Idle was k, or the loop ended: the timer
\* is paused, or time was lost to a pause or a reset
Interfered(k) ==
    \/ LoopEnded
    \/ timer.state = "Paused"
    \/ (Idle > k /\ op \in {"pause", "resume", "reset"})

\* the loop is going, the timer runs in the given phase and the clock
\* modelled is long enough for the phase to complete if nothing gets in the
\* way
RunningWithTimeLeft(phase, k) ==
    /\ session.pc \in {"elapsed", "event", "notify_work", "notify_break"}
    /\ timer.state = "Running"
    /\ timer.timer_type = phase
    /\ Idle = k
    /\ k + total_time(timer) <= MaxTime

\* the loop has just entered Break, with the completed work interval
\* recorded
WorkRecordedThenBreak ==
    /\ timer.timer_type = "Break"
    /\ op = "switch_to_break"
    /\ Len(db.rows) > session.rows_before
    /\ sql_to_bool(LastRow(db).completed)
    /\ LastRow(db).pomodoro_count = session.completed_pomodoros

\* the loop has just entered Work from a break
BreakThenWork ==
    /\ timer.timer_type = "Work"
    /\ op = "switch_to_work"

\* C21: while the loop keeps ticking and the clock keeps advancing, a
\* Running timer is eventually switched to the other phase (a Work phase
\* recorded and followed by Break, a Break followed by Work) unless the
\* user pauses, resets or quits first or the loop ends.
C21_PhaseEventuallySwitches ==
    \A k \in 0 .. MaxTime :
       /\ (RunningWithTimeLeft("Work", k)
              /\ (session.completed_pomodoros < MaxPomodoros
                     \/ session.pc = "notify_work"))
             ~> (WorkRecordedThenBreak \/ Interfered(k))
       /\ RunningWithTimeLeft("Break", k)
             ~> (BreakThenWork \/ Interfered(k))

\* after a pause that cost time and a resume, the work phase was completed,
\* recorded and followed by Break, the break completed, and Work began again
C21_Witness ==
    /\ op = "switch_to_work"
    /\ now = opTime
    /\ timer.state = "Running"
    /\ timer.work_duration > 0
    /\ timer.break_duration > 0
    /\ session.completed_pomodoros = 1
    /\ Idle > timer.work_duration + timer.break_duration
    /\ now = MaxTime
====
